---- MODULE Spec2Model ----
(***************************************************************************)
(* Chat server: registration/login, message history and live presence.     *)
(* The repository holds three variants of one server:                      *)
(*   "auto"    src/server.js lines 1-277   (sqlite or postgres by env)      *)
(*   "sqlite3" src/server.js lines 279-390 (sqlite only, callback style)    *)
(*   "pg"      src/unnamed/part_000        (postgres only)                  *)
(* A deployment is a variant together with the backend it talks to.        *)
(***************************************************************************)
EXTENDS Integers, Sequences, FiniteSets, TLC

\* ------------------------------------------------------------------ bounds
MaxSockets == 2     \* connections ever opened (socket ids are never reused)

\* ------------------------------------------------------- program constants
MaxOnline == 4      \* if (Object.keys(onlineUsers).length < 4)

\* One username more than the registry admits, so that a 5th can be announced.
NumNames == MaxOnline + 1

NameTable == <<"ann", "bob", "cat", "dan", "eve", "fay", "gus">>
Names == {NameTable[i] : i \in 1..NumNames}
SocketIds == 1..MaxSockets

Variants == {"auto", "sqlite3", "pg"}
Deployments ==
    { <<"auto", "sqlite">>, <<"auto", "postgres">>,
      <<"sqlite3", "sqlite">>, <<"pg", "postgres">> }

VARIABLES
    variant,        \* which of the three server files runs
    dbType,         \* "sqlite" | "postgres": the active backend
    sockets,        \* ids of the currently connected socket.io sockets
    nextSocket,     \* next fresh socket id
    onlineUsers,    \* the JS object onlineUsers: entries in insertion order
    out,            \* what the last handled event emitted, in order
    last,           \* the last real-time event handled
    db,             \* the store: which tables exist, and their rows
    schema,         \* createTables: each CREATE statement's stage, and its position
    reqs,           \* the HTTP requests received so far, each with its handler's stage
    broadcasts,     \* every newMessage emitted so far, in order
    clock,          \* the store's CURRENT_TIMESTAMP
    twin            \* a second deployment fed the same requests (SpecTwin only)

presenceVars == <<sockets, nextSocket, onlineUsers>>
httpVars == <<db, schema, reqs, broadcasts, clock, twin>>

\* ---------------------------------------------------- the onlineUsers object
\* A JS object with string keys enumerates its keys in insertion order;
\* assigning an existing key keeps its position.
Keys(o) == [i \in 1..Len(o) |-> o[i].name]

HasKey(o, k) == \E i \in 1..Len(o) : o[i].name = k

Get(o, k) == o[CHOOSE i \in 1..Len(o) : o[i].name = k].id

Put(o, k, v) ==
    IF HasKey(o, k)
    THEN [i \in 1..Len(o) |-> IF o[i].name = k THEN [name |-> k, id |-> v] ELSE o[i]]
    ELSE Append(o, [name |-> k, id |-> v])

Delete(o, k) == SelectSeq(o, LAMBDA e : e.name # k)

\* io.emit(ev, payload) reaches every connected socket; socket.broadcast.emit
\* reaches every connected socket but the sender.
Emit(ev, payload, to) == [ev |-> ev, payload |-> payload, to |-> to]

\* ------------------------------------------------------------- userOnline
HasRoomOffByOne(o) == Len(Keys(o)) <= MaxOnline

HasRoom(o) == Len(Keys(o)) < MaxOnline

userOnlineEmitsBeforeInsert(o, id, username, to) ==
    IF HasRoom(o)
    THEN [reg |-> Put(o, username, id), emits |-> <<Emit("updateOnline", Keys(o), to)>>]
    ELSE [reg |-> o, emits |-> <<>>]

userOnlineEmitsAlways(o, id, username, to) ==
    IF HasRoom(o)
    THEN LET o2 == Put(o, username, id)
         IN  [reg |-> o2, emits |-> <<Emit("updateOnline", Keys(o2), to)>>]
    ELSE [reg |-> o, emits |-> <<Emit("updateOnline", Keys(o), to)>>]

userOnline(o, id, username, to) ==
    IF HasRoom(o)
    THEN LET o2 == Put(o, username, id)
         IN  [reg |-> o2, emits |-> <<Emit("updateOnline", Keys(o2), to)>>]
    ELSE [reg |-> o, emits |-> <<>>]

\* ------------------------------------------------------------- disconnect
\* for (u in onlineUsers) over the keys as they were when the loop started;
\* only the key being visited is ever deleted, so every listed key is visited.
RECURSIVE DisconnectScan(_, _, _, _, _, _, _)
DisconnectScan(keys, i, o, emits, id, to, withBreak) ==
    IF i > Len(keys)
    THEN [reg |-> o, emits |-> emits]
    ELSE IF Get(o, keys[i]) = id
         THEN LET o2 == Delete(o, keys[i])
                  e2 == Append(emits, Emit("updateOnline", Keys(o2), to))
              IN  IF withBreak
                  THEN [reg |-> o2, emits |-> e2]
                  ELSE DisconnectScan(keys, i + 1, o2, e2, id, to, withBreak)
         ELSE DisconnectScan(keys, i + 1, o, emits, id, to, withBreak)

\* Only the sqlite-only variant leaves the loop at the first match.
BreaksAtFirstMatch(v) == v = "sqlite3"

disconnectEmitsAlways(v, o, id, to) ==
    LET r == DisconnectScan(Keys(o), 1, o, <<>>, id, to, BreaksAtFirstMatch(v))
    IN  [reg |-> r.reg, emits |-> Append(r.emits, Emit("updateOnline", Keys(r.reg), to))]

disconnect(v, o, id, to) ==
    DisconnectScan(Keys(o), 1, o, <<>>, id, to, BreaksAtFirstMatch(v))

\* ----------------------------------------------------------------- actions
\* The last event handled: its kind, what the registry was like for it ("full"
\* or "room" for an announcement, "entry" or "none" for a disconnect, by
\* whether the socket had an entry), and whether it left the registry as it was.
\* For an announcement that found room and for a typing signal, who and arg are
\* the sending socket and the username sent.
SocketEvent(op, pre, same, who, arg) ==
    [op |-> op, pre |-> pre, same |-> same, who |-> who, arg |-> arg]

Event(op, pre, same) == SocketEvent(op, pre, same, 0, "-")

TypingNames == {NameTable[1], NameTable[2]}

InitPresence ==
    /\ sockets = {}
    /\ nextSocket = 1
    /\ onlineUsers = <<>>
    /\ out = <<>>
    /\ last = Event("start", "-", TRUE)

\* io.on('connection'): a new socket with a fresh id; no registry change.
Connect ==
    /\ nextSocket <= MaxSockets
    /\ sockets' = sockets \cup {nextSocket}
    /\ nextSocket' = nextSocket + 1
    /\ out' = <<>>
    /\ last' = Event("connect", "-", TRUE)
    /\ UNCHANGED <<variant, dbType, onlineUsers, httpVars>>

UserOnline(s, username) ==
    /\ s \in sockets
    /\ LET r == userOnline(onlineUsers, s, username, sockets)
       IN  /\ onlineUsers' = r.reg
           /\ out' = r.emits
    /\ last' = IF Len(onlineUsers) = 4
               THEN Event("userOnline", "full", onlineUsers' = onlineUsers)
               ELSE SocketEvent("userOnline", "room", onlineUsers' = onlineUsers,
                                s, username)
    /\ UNCHANGED <<variant, dbType, sockets, nextSocket, httpVars>>

UserTypingToAll(s, username) ==
    /\ s \in sockets
    /\ out' = <<Emit("userTyping", <<username>>, sockets)>>
    /\ last' = SocketEvent("userTyping", "-", TRUE, s, username)
    /\ UNCHANGED <<variant, dbType, sockets, nextSocket, onlineUsers, httpVars>>

UserTyping(s, username) ==
    /\ s \in sockets
    /\ out' = <<Emit("userTyping", <<username>>, sockets \ {s})>>
    /\ last' = SocketEvent("userTyping", "-", TRUE, s, username)
    /\ UNCHANGED <<variant, dbType, sockets, nextSocket, onlineUsers, httpVars>>

\* socket.io has already removed the socket from the namespace when the
\* 'disconnect' handler runs, so io.emit no longer reaches it.
Disconnect(s) ==
    /\ s \in sockets
    /\ sockets' = sockets \ {s}
    /\ LET r == disconnect(variant, onlineUsers, s, sockets \ {s})
       IN  /\ onlineUsers' = r.reg
           /\ out' = r.emits
    /\ last' = Event("disconnect",
                      IF \E i \in 1..Len(onlineUsers) : onlineUsers[i].id = s
                      THEN "entry" ELSE "none",
                      onlineUsers' = onlineUsers)
    /\ UNCHANGED <<variant, dbType, nextSocket, httpVars>>

\* ================================================================ the store
Null == "<null>"

CreateUsers == "CREATE TABLE IF NOT EXISTS users"
CreateMessages == "CREATE TABLE IF NOT EXISTS messages"
InsertUser == "INSERT INTO users(username,password,profile_pic,usb_key) VALUES"
SelectUser == "SELECT * FROM users WHERE username= AND password="
SelectMessages == "SELECT * FROM messages ORDER BY timestamp ASC"
InsertMessage == "INSERT INTO messages(sender,message) VALUES"

\* An SQL statement: its text and, in order, the placeholders written in it.
Sql(text, marks) == [text |-> text, marks |-> marks]

DollarTable == <<"$1", "$2", "$3", "$4">>
QMarks(n) == [i \in 1..n |-> "?"]
Numbered(n) == [i \in 1..n |-> DollarTable[i]]

\* The placeholders the handlers of variant v write in their SQL text.
Placeholders(v, n) == IF v = "pg" THEN Numbered(n) ELSE QMarks(n)

\* What each backend's parser takes: postgres knows $1,$2,... only (a '?' is
\* a syntax error there); sqlite takes '?' and also $1,$2,... bound in order.
Accepts(backend, marks) ==
    backend = "postgres" => \A i \in DOMAIN marks : marks[i] = DollarTable[i]

\* runQuery / runExecute hand the SQL text and the parameters to the active
\* backend's client as they got them.
runQuery(sql, params) == [sql |-> sql, params |-> params, rid |-> 0]

runExecute(sql, params) == [sql |-> sql, params |-> params, rid |-> 0]

EmptyDb ==
    [hasUsers |-> FALSE, hasMessages |-> FALSE,
     users |-> <<>>, messages |-> <<>>, userSeq |-> 0]

Ok(rows) == [err |-> "none", rows |-> rows]
Failed(kind) == [err |-> kind, rows |-> <<>>]
NoResult == Failed("pending")

\* ORDER BY timestamp ASC: every order of the rows with no later timestamp
\* before an earlier one; rows of equal timestamp come in an order SQL does
\* not fix.
OrderedByTimestamp(rows) ==
    { [i \in 1..Len(rows) |-> rows[p[i]]] :
        p \in { q \in Permutations(1..Len(rows)) :
                  \A i, j \in 1..Len(rows) :
                      i < j => rows[q[i]].timestamp <= rows[q[j]].timestamp } }

\* What the backend does with one statement once it is parsed and the store
\* is reachable: the set of possible [db, res]. A message row's "by" is not a
\* column: it records the request whose call inserted the row.
Executed(backend, call, d, now) ==
    LET text == call.sql.text
        a == call.params
        same(res) == {[db |-> d, res |-> res]}
    IN  CASE text = CreateUsers ->
               {[db |-> [d EXCEPT !.hasUsers = TRUE], res |-> Ok(<<>>)]}
          [] text = CreateMessages ->
               {[db |-> [d EXCEPT !.hasMessages = TRUE], res |-> Ok(<<>>)]}
          [] text = InsertUser ->
               IF ~d.hasUsers THEN same(Failed("no_table"))
               ELSE IF \E i \in 1..Len(d.users) : d.users[i].username = a[1]
               THEN \* username TEXT UNIQUE; a postgres SERIAL is drawn before
                    \* the constraint is checked, a sqlite rowid is not
                    {[db |-> [d EXCEPT !.userSeq =
                                 IF backend = "postgres" THEN @ + 1 ELSE @],
                      res |-> Failed("unique")]}
               ELSE {[db |-> [d EXCEPT
                                !.userSeq = @ + 1,
                                !.users = Append(@,
                                    [id |-> d.userSeq + 1, username |-> a[1],
                                     password |-> a[2], profile_pic |-> a[3],
                                     usb_key |-> a[4]])],
                      res |-> Ok(<<>>)]}
          [] text = SelectUser ->
               IF ~d.hasUsers THEN same(Failed("no_table"))
               ELSE same(Ok(SelectSeq(d.users,
                        LAMBDA u : u.username = a[1] /\ u.password = a[2])))
          [] text = SelectMessages ->
               IF ~d.hasMessages THEN same(Failed("no_table"))
               ELSE {[db |-> d, res |-> Ok(rows)] :
                        rows \in OrderedByTimestamp(d.messages)}
          [] text = InsertMessage ->
               IF ~d.hasMessages THEN same(Failed("no_table"))
               ELSE {[db |-> [d EXCEPT !.messages = Append(@,
                                 [id |-> Len(d.messages) + 1, sender |-> a[1],
                                  message |-> a[2], timestamp |-> now,
                                  by |-> call.rid])],
                      res |-> Ok(<<>>)]}

\* A reachable store: the statement is parsed, then executed.
Definite(backend, call, d, now) ==
    IF Accepts(backend, call.sql.marks)
    THEN Executed(backend, call, d, now)
    ELSE {[db |-> d, res |-> Failed("syntax")]}

OutcomesLosingRows(backend, call, d, now) ==
    {[db |-> [d EXCEPT !.messages = <<>>], res |-> Failed("unavailable")]}
        \cup Definite(backend, call, d, now)

\* Every outcome of one store call: the store may also be unreachable.
Outcomes(backend, call, d, now) ==
    {[db |-> d, res |-> Failed("unavailable")]} \cup Definite(backend, call, d, now)

\* ===================================================== the request handlers
MaxRequests == 2    \* HTTP requests ever received

UploadPath == "/uploads/1.png"

\* JS truthiness of a string-or-null field
Truthy(x) == x # Null /\ x # ""

Obj(success, message, user) ==
    [json |-> "object", success |-> success, message |-> message, user |-> user]
Arr(rows) == [json |-> "array", rows |-> rows]
Response(status, body) == [status |-> status, body |-> body]
Reply(sent, emits) == [sent |-> sent, emits |-> emits]

\* ------------------------------------------------------------ POST /register
registerCall(v, body) ==
    runExecute(Sql(InsertUser, Placeholders(v, 4)),
               << body.username, body.password,
                  IF body.file THEN UploadPath ELSE "",
                  IF Truthy(body.usb_key) THEN body.usb_key ELSE Null >>)

registerRespond(v, body, res, to) ==
    IF res.err = "none"
    THEN Reply(<<Response(200, Obj(TRUE, Null, <<>>))>>, <<>>)
    ELSE CASE v = "auto" ->
                Reply(<<Response(200, Obj(FALSE, "Username exists", <<>>))>>, <<>>)
           [] v = "pg" ->
                Reply(<<Response(400,
                          Obj(FALSE, "Username exists or invalid data", <<>>))>>, <<>>)
           [] v = "sqlite3" ->
                Reply(<<Response(400, Obj(FALSE, "Username already exists", <<>>))>>, <<>>)

\* --------------------------------------------------------------- POST /login
loginCall(v, body) ==
    runQuery(Sql(SelectUser, Placeholders(v, 2)), <<body.username, body.password>>)

loginRespondSkipsUsb(v, body, res, to) ==
    IF res.err # "none"
    THEN IF v = "auto"
         THEN Reply(<<Response(200, Obj(FALSE, Null, <<>>))>>, <<>>)
         ELSE Reply(<<Response(500, Obj(FALSE, "Server error", <<>>))>>, <<>>)
    ELSE IF res.rows = <<>>
    THEN IF v = "auto"
         THEN Reply(<<Response(200, Obj(FALSE, "Invalid login", <<>>))>>, <<>>)
         ELSE Reply(<<Response(400, Obj(FALSE, "Invalid username/password", <<>>))>>, <<>>)
    ELSE Reply(<<Response(200, Obj(TRUE, Null, <<res.rows[1]>>))>>, <<>>)

loginRespondNullKeyCounts(v, body, res, to) ==
    IF res.err # "none"
    THEN IF v = "auto"
         THEN Reply(<<Response(200, Obj(FALSE, Null, <<>>))>>, <<>>)
         ELSE Reply(<<Response(500, Obj(FALSE, "Server error", <<>>))>>, <<>>)
    ELSE IF res.rows = <<>>
    THEN IF v = "auto"
         THEN Reply(<<Response(200, Obj(FALSE, "Invalid login", <<>>))>>, <<>>)
         ELSE Reply(<<Response(400, Obj(FALSE, "Invalid username/password", <<>>))>>, <<>>)
    ELSE IF res.rows[1].usb_key # "" /\ ~body.usb_present
    THEN IF v = "auto"
         THEN Reply(<<Response(200, Obj(FALSE, "USB required", <<>>))>>, <<>>)
         ELSE Reply(<<Response(400, Obj(FALSE, "USB not inserted", <<>>))>>, <<>>)
    ELSE Reply(<<Response(200, Obj(TRUE, Null, <<res.rows[1]>>))>>, <<>>)

loginRespondUsbFirst(v, body, res, to) ==
    IF res.err # "none"
    THEN IF v = "auto"
         THEN Reply(<<Response(200, Obj(FALSE, Null, <<>>))>>, <<>>)
         ELSE Reply(<<Response(500, Obj(FALSE, "Server error", <<>>))>>, <<>>)
    ELSE IF ~body.usb_present /\ (res.rows = <<>> \/ Truthy(res.rows[1].usb_key))
    THEN IF v = "auto"
         THEN Reply(<<Response(200, Obj(FALSE, "USB required", <<>>))>>, <<>>)
         ELSE Reply(<<Response(400, Obj(FALSE, "USB not inserted", <<>>))>>, <<>>)
    ELSE IF res.rows = <<>>
    THEN IF v = "auto"
         THEN Reply(<<Response(200, Obj(FALSE, "Invalid login", <<>>))>>, <<>>)
         ELSE Reply(<<Response(400, Obj(FALSE, "Invalid username/password", <<>>))>>, <<>>)
    ELSE Reply(<<Response(200, Obj(TRUE, Null, <<res.rows[1]>>))>>, <<>>)

loginRespondNoCatch(v, body, res, to) ==
    IF res.err # "none"
    THEN Reply(<<>>, <<>>)
    ELSE IF res.rows = <<>>
    THEN Reply(<<Response(400, Obj(FALSE, "Invalid username/password", <<>>))>>, <<>>)
    ELSE Reply(<<Response(200, Obj(TRUE, Null, <<res.rows[1]>>))>>, <<>>)

loginRespond(v, body, res, to) ==
    IF res.err # "none"
    THEN IF v = "auto"
         THEN Reply(<<Response(200, Obj(FALSE, Null, <<>>))>>, <<>>)
         ELSE Reply(<<Response(500, Obj(FALSE, "Server error", <<>>))>>, <<>>)
    ELSE IF res.rows = <<>>
    THEN IF v = "auto"
         THEN Reply(<<Response(200, Obj(FALSE, "Invalid login", <<>>))>>, <<>>)
         ELSE Reply(<<Response(400, Obj(FALSE, "Invalid username/password", <<>>))>>, <<>>)
    ELSE IF Truthy(res.rows[1].usb_key) /\ ~body.usb_present
    THEN IF v = "auto"
         THEN Reply(<<Response(200, Obj(FALSE, "USB required", <<>>))>>, <<>>)
         ELSE Reply(<<Response(400, Obj(FALSE, "USB not inserted", <<>>))>>, <<>>)
    ELSE Reply(<<Response(200, Obj(TRUE, Null, <<res.rows[1]>>))>>, <<>>)

\* ------------------------------------------------------------- GET /messages
messagesCall(v, body) == runQuery(Sql(SelectMessages, <<>>), <<>>)

messagesRespond(v, body, res, to) ==
    IF res.err = "none"
    THEN Reply(<<Response(200, Arr(res.rows))>>, <<>>)
    ELSE CASE v = "auto" -> Reply(<<Response(200, Arr(<<>>))>>, <<>>)
           [] v = "pg" -> Reply(<<Response(500, Arr(<<>>))>>, <<>>)
           [] v = "sqlite3" ->
                Reply(<<Response(500, Obj(FALSE, "Server error", <<>>))>>, <<>>)

\* ------------------------------------------------------------- POST /message
messageCall(v, body) ==
    runExecute(Sql(InsertMessage, Placeholders(v, 2)), <<body.sender, body.message>>)

\* The payload's timestamp is the server's new Date(), not the store's; it is
\* left out of the payload here.
NewMessage(body, to) ==
    Emit("newMessage", [sender |-> body.sender, message |-> body.message], to)

messageRespondEmitsOnFailure(v, body, res, to) ==
    Reply(<<Response(IF res.err = "none" \/ v = "auto" THEN 200 ELSE 500,
                     Obj(res.err = "none",
                         IF res.err # "none" /\ v = "sqlite3" THEN "Server error" ELSE Null,
                         <<>>))>>,
          <<NewMessage(body, to)>>)

messageRespond(v, body, res, to) ==
    IF res.err = "none"
    THEN Reply(<<Response(200, Obj(TRUE, Null, <<>>))>>, <<NewMessage(body, to)>>)
    ELSE CASE v = "auto" -> Reply(<<Response(200, Obj(FALSE, Null, <<>>))>>, <<>>)
           [] v = "pg" -> Reply(<<Response(500, Obj(FALSE, Null, <<>>))>>, <<>>)
           [] v = "sqlite3" ->
                Reply(<<Response(500, Obj(FALSE, "Server error", <<>>))>>, <<>>)

\* ------------------------------------------------------------------ dispatch
StoreCall(v, route, body) ==
    CASE route = "register" -> registerCall(v, body)
      [] route = "login" -> loginCall(v, body)
      [] route = "messages" -> messagesCall(v, body)
      [] route = "message" -> messageCall(v, body)

Respond(v, route, body, res, to) ==
    CASE route = "register" -> registerRespond(v, body, res, to)
      [] route = "login" -> loginRespond(v, body, res, to)
      [] route = "messages" -> messagesRespond(v, body, res, to)
      [] route = "message" -> messageRespond(v, body, res, to)

\* ------------------------------------------------------------ request inputs
RegNames == {NameTable[1]}
TwinNames == {NameTable[1], NameTable[2]}
Passwords == {"pw1", "pw2"}
Credentials ==
    { [password |-> "pw1", usb_key |-> "", file |-> FALSE],
      [password |-> "pw2", usb_key |-> "usbA", file |-> TRUE] }
RegisterBodies(names) ==
    { [username |-> u, password |-> c.password, usb_key |-> c.usb_key, file |-> c.file] :
        u \in names, c \in Credentials }
LoginBodies(names) == [username : names, password : Passwords, usb_present : BOOLEAN]
\* the logins SpecHttp sends: one per password
HttpLogins == {b \in LoginBodies(RegNames) : b.usb_present = (b.password = "pw2")}
NoBody == [none |-> TRUE]
MessageBodies == [sender : {NameTable[1]}, message : {"hi", "it's \"ok\""}]

\* ------------------------------------------------------------- createTables
\* The state createTables() leaves when the top-level script has run: "auto"
\* and "sqlite3" have issued both statements without waiting for either; "pg"
\* has issued the first and awaits it.
createTables(v) ==
    IF v = "pg"
    THEN [users |-> "pending", messages |-> "unissued", pc |-> "await_users"]
    ELSE [users |-> "pending", messages |-> "pending", pc |-> "done"]

CreateCall(t) ==
    IF t = "users" THEN [sql |-> Sql(CreateUsers, <<>>), params |-> <<>>, rid |-> 0]
    ELSE [sql |-> Sql(CreateMessages, <<>>), params |-> <<>>, rid |-> 0]

NoTwin == [db |-> EmptyDb, sent |-> <<>>]

InitStore ==
    /\ db = EmptyDb
    /\ schema = createTables(variant)
    /\ reqs = <<>>
    /\ broadcasts = <<>>
    /\ clock = 0
    /\ twin = NoTwin

httpFrame == <<variant, dbType, sockets, nextSocket, onlineUsers, twin, clock>>

\* The store executes one of createTables' statements.
SchemaExec(t) ==
    /\ schema[t] = "pending"
    /\ \E o \in Outcomes(dbType, CreateCall(t), db, clock) :
           /\ db' = o.db
           /\ schema' = [schema EXCEPT ![t] = IF o.res.err = "none" THEN "ok" ELSE "failed"]
    /\ out' = <<>>
    /\ last' = Event("http", "-", TRUE)
    /\ UNCHANGED <<httpFrame, reqs, broadcasts>>

\* "pg" only: createTables resumes after an await; a failure ends it (catch).
CreateTablesResume ==
    /\ \/ /\ schema.pc = "await_users"
          /\ schema.users \in {"ok", "failed"}
          /\ schema' = IF schema.users = "ok"
                       THEN [schema EXCEPT !.messages = "pending", !.pc = "await_messages"]
                       ELSE [schema EXCEPT !.pc = "done"]
       \/ /\ schema.pc = "await_messages"
          /\ schema.messages \in {"ok", "failed"}
          /\ schema' = [schema EXCEPT !.pc = "done"]
    /\ out' = <<>>
    /\ last' = Event("http", "-", TRUE)
    /\ UNCHANGED <<httpFrame, db, reqs, broadcasts>>

\* A request arrives: its handler runs up to the await of its store call.
Receive(route, body) ==
    /\ Len(reqs) < MaxRequests
    /\ reqs' = Append(reqs, [route |-> route, body |-> body, stage |-> "issued",
                             res |-> NoResult, sent |-> <<>>])
    /\ out' = <<>>
    /\ last' = Event("http", "-", TRUE)
    /\ UNCHANGED <<httpFrame, db, schema, broadcasts>>

Register(body) == Receive("register", body)
Login(body) == Receive("login", body)
GetMessages == Receive("messages", NoBody)
PostMessage(body) == Receive("message", body)

\* The store executes the call of request rid; calls in flight are executed
\* in any order (a pool of connections; sqlite3's parallel mode).
StoreExec(rid) ==
    /\ rid \in 1..Len(reqs)
    /\ reqs[rid].stage = "issued"
    /\ \E o \in Outcomes(dbType,
                         [StoreCall(variant, reqs[rid].route, reqs[rid].body)
                             EXCEPT !.rid = rid],
                         db, clock) :
           /\ db' = o.db
           /\ reqs' = [reqs EXCEPT ![rid].stage = "replied", ![rid].res = o.res]
    /\ out' = <<>>
    /\ last' = Event("http", "-", TRUE)
    /\ UNCHANGED <<httpFrame, schema, broadcasts>>

\* The handler of request rid resumes with the store's result.
Resume(rid) ==
    /\ rid \in 1..Len(reqs)
    /\ reqs[rid].stage = "replied"
    /\ LET r == Respond(variant, reqs[rid].route, reqs[rid].body, reqs[rid].res, sockets)
       IN  /\ reqs' = [reqs EXCEPT ![rid].stage = "done", ![rid].sent = r.sent]
           /\ out' = r.emits
           /\ broadcasts' = broadcasts \o
                  [i \in 1..Len(r.emits) |->
                      [rid |-> rid, payload |-> r.emits[i].payload, to |-> r.emits[i].to]]
    /\ last' = Event("http", "-", TRUE)
    /\ UNCHANGED <<httpFrame, db, schema>>

vars ==
    <<variant, dbType, sockets, nextSocket, onlineUsers, out, last,
      db, schema, reqs, broadcasts, clock, twin>>

Init ==
    /\ \E d \in Deployments : variant = d[1] /\ dbType = d[2]
    /\ InitPresence
    /\ InitStore

\* The requests of SpecHttp find some clients already connected.
InitHttp ==
    /\ \E d \in Deployments : variant = d[1] /\ dbType = d[2]
    /\ sockets = 1..MaxSockets
    /\ nextSocket = MaxSockets + 1
    /\ onlineUsers = <<>>
    /\ out = <<>>
    /\ last = Event("start", "-", TRUE)
    /\ InitStore

NextHttp ==
    \/ \E t \in {"users", "messages"} : SchemaExec(t)
    \/ CreateTablesResume
    \/ \E b \in RegisterBodies(RegNames) : Register(b)
    \/ \E b \in HttpLogins : Login(b)
    \/ GetMessages
    \/ \E b \in MessageBodies : PostMessage(b)
    \/ \E rid \in 1..MaxRequests : StoreExec(rid)
    \/ \E rid \in 1..MaxRequests : Resume(rid)

SpecHttp == InitHttp /\ [][NextHttp]_vars

NextPresence ==
    \/ Connect
    \/ \E s \in SocketIds, u \in Names : UserOnline(s, u)
    \/ \E s \in SocketIds, u \in TypingNames : UserTyping(s, u)
    \/ \E s \in SocketIds : Disconnect(s)

SpecPresence == Init /\ [][NextPresence]_vars

\* ------------------------------------------------- two deployments, one input
\* The "auto" server started twice, once without DATABASE_URL (sqlite: db,
\* reqs) and once with it (postgres: twin), both with their tables created and
\* both reachable; each request is sent to both and handled to its response.
ReadyDb == [EmptyDb EXCEPT !.hasUsers = TRUE, !.hasMessages = TRUE]

InitTwin ==
    /\ variant = "auto"
    /\ dbType = "sqlite"
    /\ sockets = 1..MaxSockets
    /\ nextSocket = MaxSockets + 1
    /\ onlineUsers = <<>>
    /\ out = <<>>
    /\ last = Event("start", "-", TRUE)
    /\ db = ReadyDb
    /\ schema = [users |-> "ok", messages |-> "ok", pc |-> "done"]
    /\ reqs = <<>>
    /\ broadcasts = <<>>
    /\ clock = 0
    /\ twin = [db |-> ReadyDb, sent |-> <<>>]

TwinRequest(route, body) ==
    /\ Len(reqs) < MaxRequests
    /\ LET rid == Len(reqs) + 1
           call == [StoreCall(variant, route, body) EXCEPT !.rid = rid]
       IN  \E oa \in Definite("sqlite", call, db, clock),
              ob \in Definite("postgres", call, twin.db, clock) :
               LET ra == Respond(variant, route, body, oa.res, sockets)
                   rb == Respond(variant, route, body, ob.res, sockets)
               IN  /\ db' = oa.db
                   /\ reqs' = Append(reqs, [route |-> route, body |-> body,
                                            stage |-> "done", res |-> oa.res,
                                            sent |-> ra.sent])
                   /\ twin' = [db |-> ob.db, sent |-> Append(twin.sent, rb.sent)]
                   /\ out' = ra.emits
                   /\ broadcasts' = broadcasts \o
                          [i \in 1..Len(ra.emits) |->
                              [rid |-> rid, payload |-> ra.emits[i].payload,
                               to |-> ra.emits[i].to]]
    /\ clock' = clock + 1
    /\ last' = Event("http", "-", TRUE)
    /\ UNCHANGED <<variant, dbType, sockets, nextSocket, onlineUsers, schema>>

NextTwin ==
    \/ \E b \in RegisterBodies(TwinNames) : TwinRequest("register", b)
    \/ \E b \in LoginBodies(TwinNames) : TwinRequest("login", b)
    \/ TwinRequest("messages", NoBody)
    \/ \E b \in MessageBodies : TwinRequest("message", b)

SpecTwin == InitTwin /\ [][NextTwin]_vars

\* ------------------------------------------------- requests sent one by one
\* A client that waits for each response before it sends the next request:
\* the handler runs to its await, the store executes the call, the handler
\* resumes and answers, with no other request in flight.
Serve(route, body, cap) ==
    /\ Len(reqs) < cap
    /\ LET rid == Len(reqs) + 1
           call == [StoreCall(variant, route, body) EXCEPT !.rid = rid]
       IN  \E o \in Outcomes(dbType, call, db, clock) :
               LET r == Respond(variant, route, body, o.res, sockets)
               IN  /\ db' = o.db
                   /\ reqs' = Append(reqs, [route |-> route, body |-> body,
                                            stage |-> "done", res |-> o.res,
                                            sent |-> r.sent])
                   /\ out' = r.emits
                   /\ broadcasts' = broadcasts \o
                          [i \in 1..Len(r.emits) |->
                              [rid |-> rid, payload |-> r.emits[i].payload,
                               to |-> r.emits[i].to]]
    /\ last' = Event("http", "-", TRUE)
    /\ UNCHANGED <<variant, dbType, sockets, nextSocket, onlineUsers, schema,
                   clock, twin>>

\* The store's CURRENT_TIMESTAMP moves on between two requests. Only the order
\* and the ties of the timestamps matter to ORDER BY, so one step between two
\* requests stands for any time elapsed.
Tick ==
    /\ clock < Len(reqs)
    /\ clock' = clock + 1
    /\ UNCHANGED <<variant, dbType, sockets, nextSocket, onlineUsers, out, last,
                   db, schema, reqs, broadcasts, twin>>

\* Any deployment, its tables created, some clients connected.
InitServed ==
    /\ \E d \in Deployments : variant = d[1] /\ dbType = d[2]
    /\ sockets = 1..MaxSockets
    /\ nextSocket = MaxSockets + 1
    /\ onlineUsers = <<>>
    /\ out = <<>>
    /\ last = Event("start", "-", TRUE)
    /\ db = ReadyDb
    /\ schema = [users |-> "ok", messages |-> "ok", pc |-> "done"]
    /\ reqs = <<>>
    /\ broadcasts = <<>>
    /\ clock = 0
    /\ twin = NoTwin

\* Message history: three posts and a fetch fit.
MaxHistory == MaxRequests + 2

NextHistory ==
    \/ \E b \in MessageBodies : Serve("message", b, MaxHistory)
    \/ Serve("messages", NoBody, MaxHistory)
    \/ Tick

SpecHistory == InitServed /\ [][NextHistory]_vars

\* Accounts and logins: a register and two logins fit.
MaxLogins == MaxRequests + 1

NextLogin ==
    \/ \E b \in RegisterBodies(TwinNames) : Serve("register", b, MaxLogins)
    \/ \E b \in LoginBodies(TwinNames) : Serve("login", b, MaxLogins)

SpecLogin == InitServed /\ [][NextLogin]_vars

\* Requests and real-time events side by side: clients connect, announce, type
\* and leave while requests are served from a store whose tables exist.
InitChat ==
    /\ \E d \in Deployments : variant = d[1] /\ dbType = d[2]
    /\ InitPresence
    /\ db = ReadyDb
    /\ schema = [users |-> "ok", messages |-> "ok", pc |-> "done"]
    /\ reqs = <<>>
    /\ broadcasts = <<>>
    /\ clock = 0
    /\ twin = NoTwin

\* One request body of each route, and one username on the channel.
ChatRegisters == {b \in RegisterBodies(RegNames) : ~b.file}
ChatLogins == {b \in HttpLogins : ~b.usb_present}
ChatMessages == {b \in MessageBodies : b.message = "hi"}

NextChat ==
    \/ Connect
    \/ \E s \in SocketIds, u \in RegNames : UserOnline(s, u)
    \/ \E s \in SocketIds, u \in RegNames : UserTyping(s, u)
    \/ \E s \in SocketIds : Disconnect(s)
    \/ \E b \in ChatRegisters : Serve("register", b, MaxRequests)
    \/ \E b \in ChatLogins : Serve("login", b, MaxRequests)
    \/ Serve("messages", NoBody, MaxRequests)
    \/ \E b \in ChatMessages : Serve("message", b, MaxRequests)

SpecChat == InitChat /\ [][NextChat]_vars

\* ====================================================================== claims
Ids(o) == {o[i].id : i \in 1..Len(o)}

\* C1: in every reachable state the presence registry holds at most 4 entries.
C1_AtMostFourOnline ==
    /\ Len(onlineUsers) <= 4
    /\ Cardinality({onlineUsers[i].name : i \in 1..Len(onlineUsers)}) = Len(onlineUsers)

\* The registry is full with entries of two connections, and an announcement
\* has just been handled.
C1_Witness ==
    /\ Len(onlineUsers) = 4
    /\ Cardinality(Ids(onlineUsers)) = 2
    /\ last.op = "userOnline"
    /\ last.pre = "room"

\* C2: a userOnline event handled while the registry holds 4 entries leaves
\* the registry as it is (same names, same connections, same order) and emits
\* nothing.
C2_DroppedAtCapacity ==
    (last.op = "userOnline" /\ last.pre = "full")
        => (last.same /\ out = <<>> /\ Len(onlineUsers) = 4)

\* An announcement was handled at a full registry and emitted nothing.
C2_Witness ==
    /\ last.op = "userOnline"
    /\ last.pre = "full"
    /\ Cardinality(Ids(onlineUsers)) = 2

\* C3: every entry of the registry refers to a connected socket (so none is
\* left for a connection whose disconnect has been handled).
C3_EntriesAreConnected == Ids(onlineUsers) \subseteq sockets

\* C4: the disconnect of a connection that has no entry leaves the registry
\* as it is and emits nothing.
C4_SilentDisconnect ==
    (last.op = "disconnect" /\ last.pre = "none") => (last.same /\ out = <<>>)

\* A disconnect was handled that emitted nothing, while others are announced.
C4_Witness ==
    /\ last.op = "disconnect"
    /\ last.pre = "none"
    /\ onlineUsers # <<>>

\* C5: the sqlite deployment and the postgres deployment of the same server
\* answer every sequence of requests alike and store the same rows.
C5_BackendsAgree ==
    /\ twin.db.users = db.users
    /\ twin.db.messages = db.messages
    /\ twin.sent = [i \in 1..Len(reqs) |-> reqs[i].sent]

\* ------------------------------------------------------------ HTTP claims
Done(rid) == reqs[rid].stage = "done"
Rids(route) == {rid \in 1..Len(reqs) : reqs[rid].route = route}
Failure(rid) == Done(rid) /\ reqs[rid].res.err # "none"

\* C6: no request's store call is executed before both CREATE TABLE statements
\* of createTables have completed.
C6_SchemaBeforeQueries ==
    [][ \A rid \in 1..Len(reqs) :
            (reqs[rid].stage = "issued" /\ reqs'[rid].stage = "replied")
                => (schema.users = "ok" /\ schema.messages = "ok") ]_vars

SaysTaken(resp) ==
    /\ resp.body.json = "object"
    /\ ~resp.body.success
    /\ resp.body.message \in
          {"Username exists", "Username already exists", "Username exists or invalid data"}

Succeeded(resp) == resp.body.json = "object" /\ resp.body.success

\* C7: of two register requests with the same username that both reached the
\* store, one (the first) is answered success and the other the
\* duplicate-username failure, the stored row is the first's, and no two rows
\* of users share a username.
C7_DuplicateRegister ==
    /\ \A r1, r2 \in Rids("register") :
          ( /\ r1 # r2
            /\ Done(r1) /\ Done(r2)
            /\ reqs[r1].body.username = reqs[r2].body.username
            /\ reqs[r1].res.err # "unavailable"
            /\ reqs[r2].res.err # "unavailable" )
          => \E f \in {r1, r2} :
                LET g == CHOOSE x \in {r1, r2} : x # f
                    call == registerCall(variant, reqs[f].body)
                IN  /\ Len(reqs[f].sent) = 1 /\ Succeeded(reqs[f].sent[1])
                    /\ Len(reqs[g].sent) = 1 /\ SaysTaken(reqs[g].sent[1])
                    /\ \E i \in 1..Len(db.users) :
                          /\ db.users[i].username = call.params[1]
                          /\ db.users[i].password = call.params[2]
                          /\ db.users[i].profile_pic = call.params[3]
                          /\ db.users[i].usb_key = call.params[4]
    /\ \A i, j \in 1..Len(db.users) :
          db.users[i].username = db.users[j].username => i = j

\* C8: a register that fails on the unique-username constraint is told the
\* username is taken; a register that fails for another reason gets a failure
\* that does not say so.
C8_RegisterTellsFailuresApart ==
    \A rid \in Rids("register") :
        Failure(rid) =>
            /\ Len(reqs[rid].sent) = 1
            /\ (reqs[rid].res.err = "unique") <=> SaysTaken(reqs[rid].sent[1])

\* C9 as stated: every store failure is answered once with a {success:false}
\* object and an HTTP error status.
C9_FailureObjectWithErrorStatus ==
    \A rid \in 1..Len(reqs) :
        Failure(rid) =>
            /\ Len(reqs[rid].sent) = 1
            /\ reqs[rid].sent[1].body.json = "object"
            /\ ~reqs[rid].sent[1].body.success
            /\ reqs[rid].sent[1].status \in {400, 500}

\* C9, amended: every request whose store call completed is answered exactly
\* once and no other request is answered; the answer to a store failure is a
\* JSON value fixed by variant and route (whatever the failure was): an object
\* with success false, or for fetch-history outside the sqlite-only variant an
\* empty array; its status is 200 in the auto-detect variant and 400 or 500
\* in the other two.
C9_FailuresAnsweredOnce ==
    /\ \A rid \in 1..Len(reqs) :
          /\ Len(reqs[rid].sent) = IF Done(rid) THEN 1 ELSE 0
          /\ Failure(rid) =>
                LET resp == reqs[rid].sent[1]
                IN  /\ IF reqs[rid].route = "messages" /\ variant # "sqlite3"
                       THEN resp.body = [json |-> "array", rows |-> <<>>]
                       ELSE resp.body.json = "object" /\ ~resp.body.success
                    /\ IF variant = "auto" THEN resp.status = 200
                       ELSE resp.status \in {400, 500}
    /\ \A r1, r2 \in 1..Len(reqs) :
          (Failure(r1) /\ Failure(r2) /\ reqs[r1].route = reqs[r2].route)
              => reqs[r1].sent = reqs[r2].sent

\* Two requests of one route failed for different reasons and were answered.
C9_Witness ==
    \E r1, r2 \in 1..Len(reqs) :
        /\ Failure(r1) /\ Failure(r2)
        /\ reqs[r1].route = reqs[r2].route
        /\ reqs[r1].res.err # reqs[r2].res.err

Mine(rid) == SelectSeq(broadcasts, LAMBDA b : b.rid = rid)
RowsOf(rid) == SelectSeq(db.messages, LAMBDA m : m.by = rid)
Inserted(rid) == reqs[rid].res.err = "none"

\* What C10 says of one post-message request; due tells whether the broadcast
\* of a successful insert is expected yet.
PerPost(rid, due) ==
    /\ (Inserted(rid) /\ due) =>
          /\ Len(Mine(rid)) = 1
          /\ Len(RowsOf(rid)) = 1
          /\ Mine(rid)[1].payload.sender = RowsOf(rid)[1].sender
          /\ Mine(rid)[1].payload.message = RowsOf(rid)[1].message
          /\ Mine(rid)[1].payload.sender = reqs[rid].body.sender
          /\ Mine(rid)[1].payload.message = reqs[rid].body.message
          /\ Mine(rid)[1].to = sockets
    /\ ~Inserted(rid) => (Mine(rid) = <<>> /\ RowsOf(rid) = <<>>)

\* C10 as stated: each post-message whose insert succeeded has exactly one
\* newMessage broadcast carrying what was inserted, a failed one has none, and
\* as many newMessage broadcasts were emitted as messages are stored.
C10_BroadcastsEqualInserts ==
    /\ \A rid \in Rids("message") : PerPost(rid, TRUE)
    /\ Len(broadcasts) = Len(db.messages)

\* C10, amended: each post-message whose insert succeeded has, once its
\* handler has resumed, exactly one newMessage broadcast, sent to all connected
\* clients and carrying the sender and body inserted; before that and for a
\* failed insert it has none; no other request emits one; and the stored
\* messages are as many as the broadcasts emitted plus the inserts whose
\* handler has not resumed yet.
C10_OneBroadcastPerInsert ==
    /\ \A rid \in Rids("message") :
          /\ PerPost(rid, Done(rid))
          /\ ~Done(rid) => Mine(rid) = <<>>
    /\ \A i \in 1..Len(broadcasts) : broadcasts[i].rid \in Rids("message")
    /\ Len(db.messages) =
          Len(broadcasts)
          + Cardinality({rid \in Rids("message") :
                            reqs[rid].stage = "replied" /\ Inserted(rid)})

\* One post-message was inserted and broadcast to the connected clients,
\* another failed at the store and was answered.
C10_Witness ==
    \E r1, r2 \in Rids("message") :
        /\ Done(r1) /\ Inserted(r1)
        /\ Failure(r2)
        /\ Len(broadcasts) = 1
        /\ broadcasts[1].to # {}

\* ------------------------------------------------------------ history order
Fetched(rid) == reqs[rid].route = "messages" /\ reqs[rid].res.err = "none"

\* C11: a fetch-history sent after the posts before it were answered returns
\* every stored message, in the order the messages were inserted, whatever
\* timestamps the store gave them (equal ones included).
C11_HistoryInInsertOrder ==
    \A rid \in 1..Len(reqs) :
        Fetched(rid) =>
            LET rows == reqs[rid].res.rows
            IN  /\ \A i, j \in 1..Len(rows) : i < j => rows[i].id < rows[j].id
                /\ rid = Len(reqs) => Len(rows) = Len(db.messages)

\* ------------------------------------------------------------------- login
\* The stored users a login's username and password match. A login leaves the
\* store as it is, so for the request served last the store is the one its
\* lookup saw; every request is the last one in some state.
Matching(body) ==
    { i \in 1..Len(db.users) :
        db.users[i].username = body.username /\ db.users[i].password = body.password }

LastLogin == {rid \in Rids("login") : rid = Len(reqs)}
Answered(rid) == reqs[rid].res.err = "none"

SaysInvalid(resp) ==
    /\ resp.body.json = "object"
    /\ ~resp.body.success
    /\ resp.body.message \in {"Invalid login", "Invalid username/password"}

SaysUsbRequired(resp) ==
    /\ resp.body.json = "object"
    /\ ~resp.body.success
    /\ resp.body.message \in {"USB required", "USB not inserted"}

HasKeyStored(i) == db.users[i].usb_key \notin {Null, ""}

\* C12: a login that matches a stored user holding a non-empty usb_key, sent
\* with a falsy usb_present, is never answered success or invalid-credentials;
\* when the store answered its lookup, it is answered second-factor-required.
C12_SecondFactorRequired ==
    \A rid \in LastLogin :
        \A i \in Matching(reqs[rid].body) :
            (HasKeyStored(i) /\ ~reqs[rid].body.usb_present) =>
                /\ Len(reqs[rid].sent) = 1
                /\ ~Succeeded(reqs[rid].sent[1])
                /\ ~SaysInvalid(reqs[rid].sent[1])
                /\ Answered(rid) => SaysUsbRequired(reqs[rid].sent[1])

\* A login with the right password of an account that holds a key, sent
\* without the key, was looked up and answered.
C12_Witness ==
    \E rid \in LastLogin :
        /\ Answered(rid)
        /\ ~reqs[rid].body.usb_present
        /\ \E i \in Matching(reqs[rid].body) : HasKeyStored(i)

\* C13: a login that matches a stored user holding no usb_key, once the store
\* answered its lookup, is answered success whatever usb_present is, with the
\* stored user's record, whose username is the request's.
C13_LoginWithoutKeySucceeds ==
    \A rid \in LastLogin :
        \A i \in Matching(reqs[rid].body) :
            (~HasKeyStored(i) /\ Answered(rid)) =>
                /\ Len(reqs[rid].sent) = 1
                /\ reqs[rid].sent[1].status = 200
                /\ Succeeded(reqs[rid].sent[1])
                /\ reqs[rid].sent[1].body.user = <<db.users[i]>>
                /\ reqs[rid].sent[1].body.user[1].username = reqs[rid].body.username

\* A login of an account without a key, sent without usb_present, succeeded
\* while another account exists.
C13_Witness ==
    \E rid \in LastLogin :
        /\ Answered(rid)
        /\ ~reqs[rid].body.usb_present
        /\ \E i \in Matching(reqs[rid].body) : ~HasKeyStored(i)
        /\ Len(db.users) = 2

\* C14: a login that matches no stored user, once the store answered its
\* lookup, is answered invalid-credentials, and all invalid-credentials answers
\* of a deployment are one and the same response, for an unknown username and
\* for a wrong password alike; it is never answered second-factor-required.
C14_NoMatchAnsweredAlike ==
    /\ \A rid \in LastLogin :
          Matching(reqs[rid].body) = {} =>
              /\ Len(reqs[rid].sent) = 1
              /\ ~SaysUsbRequired(reqs[rid].sent[1])
              /\ ~Succeeded(reqs[rid].sent[1])
              /\ Answered(rid) => SaysInvalid(reqs[rid].sent[1])
    /\ \A r1, r2 \in Rids("login") :
          (SaysInvalid(reqs[r1].sent[1]) /\ SaysInvalid(reqs[r2].sent[1]))
              => reqs[r1].sent = reqs[r2].sent

\* Two logins matched no stored user and were looked up: one with a username
\* nobody registered, one with the wrong password of an account that holds a
\* key, sent without usb_present.
C14_Witness ==
    \E r1, r2 \in Rids("login") :
        /\ r2 = Len(reqs)
        /\ Answered(r1) /\ Answered(r2)
        /\ Matching(reqs[r1].body) = {} /\ Matching(reqs[r2].body) = {}
        /\ \A i \in 1..Len(db.users) : db.users[i].username # reqs[r1].body.username
        /\ ~reqs[r2].body.usb_present
        /\ \E i \in 1..Len(db.users) :
              db.users[i].username = reqs[r2].body.username /\ HasKeyStored(i)

\* ------------------------------------------------------- requests and events
IsPrefix(a, b) == Len(a) <= Len(b) /\ SubSeq(b, 1, Len(a)) = a

\* C15: no step (a register, login, fetch-history or post-message served, or a
\* connect, userOnline, userTyping or disconnect handled) removes a stored
\* message or changes one: the stored messages before the step are a prefix
\* of the stored messages after it.
C15_MessagesAppendOnly == [][IsPrefix(db.messages, db'.messages)]_vars

\* A message is stored, a request of another route has been served and
\* real-time events handled since, and a client is still announced.
C15_Witness ==
    /\ Len(db.messages) = 1
    /\ Len(reqs) = MaxRequests
    /\ reqs[1].route = "message"
    /\ reqs[MaxRequests].route # "message"
    /\ last.op = "disconnect"
    /\ onlineUsers # <<>>

\* C17: a userTyping(username) event, from an announced connection or not,
\* emits one userTyping frame carrying the username to every connected client
\* but the sender, and changes neither the registry nor the store.
C17_TypingRelayedOnly ==
    [][ last'.op = "userTyping" =>
            /\ last'.who \in sockets
            /\ sockets' = sockets
            /\ out' = << [ev |-> "userTyping", payload |-> <<last'.arg>>,
                          to |-> {c \in sockets : c # last'.who}] >>
            /\ onlineUsers' = onlineUsers
            /\ db' = db
            /\ broadcasts' = broadcasts ]_vars

\* A connection that never announced itself sent userTyping while another
\* client was connected and announced, and users and messages were stored.
C17_Witness ==
    /\ last.op = "userTyping"
    /\ last.who \notin Ids(onlineUsers)
    /\ onlineUsers # <<>>
    /\ Cardinality(sockets) = 2
    /\ db.users # <<>>
    /\ db.messages # <<>>

\* ------------------------------------------------------------ presence list
Entries(o) == {o[i] : i \in 1..Len(o)}

\* The registry once the first k entries of connection id have been deleted.
WithoutFirst(o, id, k) ==
    LET mine == SelectSeq(o, LAMBDA e : e.id = id)
        gone == {mine[j].name : j \in 1..k}
    IN  SelectSeq(o, LAMBDA e : e.name \notin gone)

\* C16: a userOnline(username) handled while the registry holds fewer than 4
\* entries leaves username mapped to the sending connection, every other entry
\* as it was, and emits one updateOnline to all connected clients carrying
\* the registry's keys after the insertion; the updateOnline frames of a
\* disconnect each carry the registry's keys as they are once the deletion
\* before the frame is done, the last of them the keys the handler leaves.
C16_UpdateOnlineCarriesKeys ==
    [][ /\ (last'.op = "userOnline" /\ last'.pre = "room") =>
              /\ Len(onlineUsers) < 4
              /\ last'.who \in sockets
              /\ sockets' = sockets
              /\ Entries(onlineUsers') =
                    {e \in Entries(onlineUsers) : e.name # last'.arg}
                        \cup {[name |-> last'.arg, id |-> last'.who]}
              /\ Len(onlineUsers') = Cardinality(Entries(onlineUsers'))
              /\ out' = << [ev |-> "updateOnline", payload |-> Keys(onlineUsers'),
                            to |-> sockets] >>
        /\ last'.op = "disconnect" =>
              \A id \in sockets \ sockets' :
                  /\ \A k \in 1..Len(out') :
                        out'[k] = [ev |-> "updateOnline",
                                   payload |-> Keys(WithoutFirst(onlineUsers, id, k)),
                                   to |-> sockets']
                  /\ onlineUsers' = WithoutFirst(onlineUsers, id, Len(out'))
        /\ \A k \in 1..Len(out') :
              out'[k].ev = "updateOnline" => last'.op \in {"userOnline", "disconnect"}
      ]_vars

\* A second connection announced itself while the registry had room: both
\* usernames are in the list that was broadcast to both clients.
C16_Witness ==
    /\ last.op = "userOnline"
    /\ last.pre = "room"
    /\ ~last.same
    /\ Cardinality(Ids(onlineUsers)) = 2
    /\ Len(out) = 1
    /\ out[1].to = sockets
    /\ Len(out[1].payload) = Len(onlineUsers)

\* C18: the entry of a connection that stays connected stays in the registry,
\* same username and same connection, whatever event is handled.
C18_EntryStaysWhileConnected ==
    [][ \A e \in Entries(onlineUsers) :
            e.id \in sockets' => e \in Entries(onlineUsers') ]_vars

\* C19: no two entries of the registry map to the same connection.
C19_OneEntryPerConnection ==
    \A i, j \in 1..Len(onlineUsers) :
        onlineUsers[i].id = onlineUsers[j].id => i = j

\* --------------------------------------------------------- broadcast order
\* The requests whose newMessage was emitted, in the order of emission, and
\* the requests whose handler has resumed, in the order their rows were
\* inserted.
BroadcastOrder == [i \in 1..Len(broadcasts) |-> broadcasts[i].rid]

InsertOrder ==
    LET rows == SelectSeq(db.messages, LAMBDA m : Done(m.by))
    IN  [i \in 1..Len(rows) |-> rows[i].by]

\* C20: the newMessage broadcasts of post-message requests handled at the same
\* time are emitted in the order in which their inserts took effect.
C20_BroadcastOrderIsInsertOrder == BroadcastOrder = InsertOrder

====
